---- MODULE Spec2Model ----
(***************************************************************************)
(* Model of deepspeed-telechat/utils/utils.py: the checkpoint export       *)
(* (save_hf_format, save_zero_three_model), get_dtype_size and to_device.  *)
(*                                                                         *)
(* Python strings are sequences of one-character strings, so that the      *)
(* substring test ("lora" in key) and the regular expression of            *)
(* get_dtype_size are computed, not assumed.  Byte sizes are counted in    *)
(* eighths of a byte (1/8 is the size get_dtype_size gives torch.bool), so *)
(* that every size of the program is an integer of the model.              *)
(***************************************************************************)
EXTENDS Integers, Sequences, FiniteSets, TLC

VARIABLES
    task,               \* which function of the module is being called
    fn,                 \* export entry point: "save_hf_format" | "save_zero_three_model"
    zero_stage,         \* args.zero_stage
    model,              \* model_to_save.named_parameters(), in order
    dir_exists,         \* whether output_dir exists on the shared storage
    pc,                 \* per worker: position in the export function
    idx,                \* per worker: position of the named_parameters loop
    ds_status,          \* per worker, per parameter: "NONE" (no ds_id) | "NOT_AVAILABLE" | "AVAILABLE"
    fetched,            \* per worker: parameters the open GatheredParameters context fetched
    gatherCalls,        \* per worker, per parameter: invocations of GatheredParameters
    err,                \* per worker: "none" | "ValueError" (get_dtype_size) | "CopyError" (.cpu())
    output_state_dict,  \* per worker: keys of output_state_dict, in insertion order
    weight_map,         \* per worker: index_dict["weight_map"], a set of <<name, file>>
    total_size,         \* per worker: total_size, in eighths of a byte
    writes,             \* per worker: filesystem operations performed, in order
    saved_weights,      \* per worker: what torch.save wrote
    saved_index,        \* per worker: what was written to pytorch_model.bin.index.json
    dtype_arg,          \* get_dtype_size: the argument
    dtype_ret,          \* get_dtype_size: the outcome
    batch,              \* to_device: the input mapping, as a sequence of [key, val]
    batch0,             \* to_device: the input mapping as it was at the call
    output,             \* to_device: the mapping being built
    device,             \* to_device: the target device
    td_i,               \* to_device: position of the loop over batch.items()
    td_pc               \* to_device: "loop" | "returned" | "raised"

vars == <<task, fn, zero_stage, model, dir_exists, pc, idx, ds_status, fetched,
          gatherCalls, err, output_state_dict, weight_map, total_size, writes,
          saved_weights, saved_index, dtype_arg, dtype_ret, batch, batch0,
          output, device, td_i, td_pc>>

exportVars == <<fn, zero_stage, model, dir_exists, pc, idx, ds_status, fetched,
                gatherCalls, err, output_state_dict, weight_map, total_size,
                writes, saved_weights, saved_index>>
dtypeVars == <<dtype_arg, dtype_ret>>
deviceVars == <<batch, batch0, output, device, td_i, td_pc>>

----------------------------------------------------------------------------
(* Bounds *)

NumWorkers == 2
MaxParams == 2
MaxBatch == 2

Ranks == 0..(NumWorkers - 1)

----------------------------------------------------------------------------
(* Strings *)

S_lora == <<"l", "o", "r", "a">>

\* Python's `sub in s` for strings.
Contains(sub, s) ==
    \E k \in 0..(Len(s) - Len(sub)) : SubSeq(s, k + 1, k + Len(sub)) = sub

StartsWith(sub, s) ==
    Len(sub) <= Len(s) /\ SubSeq(s, 1, Len(sub)) = sub

WEIGHTS_NAME == "pytorch_model_00001-of-00001.bin"

T_float32 == <<"t","o","r","c","h",".","f","l","o","a","t","3","2">>
T_bfloat16 == <<"t","o","r","c","h",".","b","f","l","o","a","t","1","6">>
T_int8 == <<"t","o","r","c","h",".","i","n","t","8">>
T_complex128 == <<"t","o","r","c","h",".","c","o","m","p","l","e","x","1","2","8">>
T_uint4 == <<"t","o","r","c","h",".","u","i","n","t","4">>
T_float8_e5m2 == <<"t","o","r","c","h",".","f","l","o","a","t","8","_","e","5","m","2">>
T_float8_e4m3fn == <<"t","o","r","c","h",".","f","l","o","a","t","8","_","e","4","m","3","f","n">>
T_bool == <<"t","o","r","c","h",".","b","o","o","l">>
T_customtype == <<"c","u","s","t","o","m","t","y","p","e">>

DTypePool == {T_float32, T_bfloat16, T_int8, T_complex128, T_uint4,
              T_float8_e5m2, T_float8_e4m3fn, T_bool, T_customtype}

----------------------------------------------------------------------------
(* get_dtype_size *)

Digits == {"0", "1", "2", "3", "4", "5", "6", "7", "8", "9"}

DigitVal(c) ==
    CASE c = "0" -> 0 [] c = "1" -> 1 [] c = "2" -> 2 [] c = "3" -> 3
      [] c = "4" -> 4 [] c = "5" -> 5 [] c = "6" -> 6 [] c = "7" -> 7
      [] c = "8" -> 8 [] c = "9" -> 9

\* int(digits)
RECURSIVE ParseInt(_)
ParseInt(ds) ==
    IF ds = <<>> THEN 0
    ELSE 10 * ParseInt(SubSeq(ds, 1, Len(ds) - 1)) + DigitVal(ds[Len(ds)])

\* Where `$` matches: at the end, or before a newline that ends the string.
MatchEnd(s) ==
    IF Len(s) > 0 /\ s[Len(s)] = "\n" THEN Len(s) - 1 ELSE Len(s)

\* re.search("[^\d](\d+)$", s): the positions p of a character that is not a
\* digit and is followed by digits, and nothing else, up to MatchEnd(s).
BitSearch(s) ==
    { p \in 1..(MatchEnd(s) - 1) :
        /\ s[p] \notin Digits
        /\ \A q \in (p + 1)..MatchEnd(s) : s[q] \in Digits }

\* bit_size // 8, in eighths of a byte
FloorBytes(bit_size) == 8 * (bit_size \div 8)

Raised == [raised |-> TRUE, eighths |-> 0]
Returned(e) == [raised |-> FALSE, eighths |-> e]

get_dtype_size(dtype) ==
    IF dtype = T_bool THEN Returned(1)
    ELSE IF BitSearch(dtype) = {} THEN Raised
    ELSE LET p == CHOOSE x \in BitSearch(dtype) : TRUE
             bit_size == ParseInt(SubSeq(dtype, p + 1, MatchEnd(dtype)))
         IN  Returned(FloorBytes(bit_size))

----------------------------------------------------------------------------
(* The model being exported *)

N_w == <<"w">>
N_b == <<"b">>
N_lor == <<"l", "o", "r">>
N_LoRA == <<"L", "o", "R", "A">>
N_lora_A == <<"l", "o", "r", "a", "_", "A">>
N_h_lora == <<"h", ".", "l", "o", "r", "a">>

\* A named parameter: its name, the element count and dtype of the full
\* tensor, and its ZeRO-3 state when the model is partitioned ("NONE": the
\* parameter has no ds_id).
Param(name, numel, dtype, status) ==
    [name |-> name, numel |-> numel, dtype |-> dtype, ds_status |-> status]

ParamPool ==
    { Param(N_w, 2, T_float32, "NOT_AVAILABLE"),
      Param(N_lora_A, 1, T_float8_e4m3fn, "NOT_AVAILABLE"),
      Param(N_h_lora, 2, T_int8, "NONE"),
      Param(N_LoRA, 3, T_bool, "NONE"),
      Param(N_b, 1, T_float8_e4m3fn, "NOT_AVAILABLE"),
      Param(N_lor, 2, T_bfloat16, "AVAILABLE") }

\* named_parameters() yields each name once.
ParamLists ==
    { s \in UNION { [1..n -> ParamPool] : n \in 1..MaxParams } :
        \A i, j \in 1..Len(s) : i # j => s[i].name # s[j].name }

\* The same parameters held in full by every worker: none has a ds_id.
Replicated(m) == [j \in 1..Len(m) |-> [m[j] EXCEPT !.ds_status = "NONE"]]

Names(m) == [j \in 1..Len(m) |-> m[j].name]

\* v.numel() of a parameter whose partition has been released: the local
\* tensor of a partitioned parameter is an empty placeholder.
PlaceholderNumel == 0

\* v.numel() as worker w reads it
Numel(w, j) ==
    IF ds_status[w][j] = "NOT_AVAILABLE" THEN PlaceholderNumel ELSE model[j].numel

\* `"lora" not in name`, with a bug: only a leading "lora" is recognised
IsRetained_prefix(name) == ~StartsWith(S_lora, name)

\* `"lora" not in name`
IsRetained(name) == ~Contains(S_lora, name)

\* index_dict["weight_map"][name] = WEIGHTS_NAME
WmSet(wm, name) == { e \in wm : e[1] # name } \cup { <<name, WEIGHTS_NAME>> }

Acc0 == [weight_map |-> {}, total_size |-> 0, raised |-> FALSE]

\* One iteration of the loop that builds the index: the entry is made, then
\* get_dtype_size may raise.
IndexEntry(acc, name, numel, dtype) ==
    IF IsRetained(name)
    THEN LET sz == get_dtype_size(dtype)
         IN  [weight_map |-> WmSet(acc.weight_map, name),
              total_size |-> IF sz.raised THEN acc.total_size
                             ELSE acc.total_size + numel * sz.eighths,
              raised |-> sz.raised]
    ELSE acc

\* for name, param in model_to_save.named_parameters(): ... from position j
RECURSIVE IndexLoop(_, _, _)
IndexLoop(w, j, acc) ==
    IF j > Len(model) \/ acc.raised THEN acc
    ELSE IndexLoop(w, j + 1, IndexEntry(acc, model[j].name, Numel(w, j), model[j].dtype))

\* state_dict() with the "lora" keys deleted
FilteredStateDict(m) == SelectSeq(Names(m), IsRetained)

\* state_dict() as is
FullStateDict(m) == Names(m)

\* os.makedirs(output_dir, exist_ok=True): creates the directory if absent
MakedirsOps == IF dir_exists THEN <<>> ELSE <<"mkdir">>

NotWritten == [written |-> FALSE, keys |-> <<>>]
NoIndex == [written |-> FALSE, weight_map |-> {}, total_size |-> 0]

----------------------------------------------------------------------------
(* save_hf_format *)

Partitioned == fn = "save_zero_three_model" /\ zero_stage = 3

\* lines 40-46: the output directory is made, whatever the rank
HfMakedirs(w) ==
    /\ task = "export" /\ pc[w] = "hf_start"
    /\ writes' = [writes EXCEPT ![w] = @ \o MakedirsOps]
    /\ dir_exists' = TRUE
    /\ pc' = [pc EXCEPT ![w] = "hf_save"]
    /\ UNCHANGED <<task, dtype_arg, dtype_ret, batch, batch0, output, device, td_i, td_pc>>
    /\ UNCHANGED <<fn, zero_stage, model, idx, ds_status, fetched, gatherCalls, err,
                   output_state_dict, weight_map, total_size, saved_weights, saved_index>>

\* lines 47-53: the state without its "lora" keys, the config, the tokenizer
HfSaveState(w) ==
    /\ task = "export" /\ pc[w] = "hf_save"
    /\ saved_weights' = [saved_weights EXCEPT
                           ![w] = [written |-> TRUE, keys |-> FilteredStateDict(model)]]
    /\ writes' = [writes EXCEPT ![w] = @ \o <<"weights", "config", "tokenizer">>]
    /\ pc' = [pc EXCEPT ![w] = "hf_index"]
    /\ UNCHANGED <<task, dtype_arg, dtype_ret, batch, batch0, output, device, td_i, td_pc>>
    /\ UNCHANGED <<fn, zero_stage, model, dir_exists, idx, ds_status, fetched, gatherCalls,
                   err, output_state_dict, weight_map, total_size, saved_index>>

\* lines 54-59: the index is built; get_dtype_size may raise
HfBuildIndex(w) ==
    /\ task = "export" /\ pc[w] = "hf_index"
    /\ LET acc == IndexLoop(w, 1, Acc0)
       IN  /\ weight_map' = [weight_map EXCEPT ![w] = acc.weight_map]
           /\ total_size' = [total_size EXCEPT ![w] = acc.total_size]
           /\ pc' = [pc EXCEPT ![w] = IF acc.raised THEN "raised" ELSE "hf_write"]
           /\ err' = [err EXCEPT ![w] = IF acc.raised THEN "ValueError" ELSE @]
    /\ UNCHANGED <<task, dtype_arg, dtype_ret, batch, batch0, output, device, td_i, td_pc>>
    /\ UNCHANGED <<fn, zero_stage, model, dir_exists, idx, ds_status, fetched, gatherCalls,
                   output_state_dict, writes, saved_weights, saved_index>>

\* lines 60-65: the index is written, then the two copies are run
HfWriteIndex(w) ==
    /\ task = "export" /\ pc[w] = "hf_write"
    /\ saved_index' = [saved_index EXCEPT
                         ![w] = [written |-> TRUE, weight_map |-> weight_map[w],
                                 total_size |-> total_size[w]]]
    /\ writes' = [writes EXCEPT ![w] = @ \o <<"index", "cp_telechat", "cp_generation">>]
    /\ pc' = [pc EXCEPT ![w] = "done"]
    /\ UNCHANGED <<task, dtype_arg, dtype_ret, batch, batch0, output, device, td_i, td_pc>>
    /\ UNCHANGED <<fn, zero_stage, model, dir_exists, idx, ds_status, fetched, gatherCalls,
                   err, output_state_dict, weight_map, total_size, saved_weights>>

----------------------------------------------------------------------------
(* save_zero_three_model *)

\* _z3_params_to_fetch([v]) for the parameter at position j
z3_params_to_fetch(w, j) ==
    IF ds_status[w][j] = "NOT_AVAILABLE" THEN {j} ELSE {}

\* GatheredParameters.__exit__ with a bug: the partition state is restored
\* only when the body did not raise
ExitStatus_noFinally(status, got, ok) ==
    [j \in DOMAIN status |-> IF j \in got /\ ok THEN "NOT_AVAILABLE" ELSE status[j]]

\* Leaving the `with` block, normally or by an exception: the parameters the
\* context fetched are partitioned again.
ExitStatus(status, got, ok) ==
    [j \in DOMAIN status |-> IF j \in got THEN "NOT_AVAILABLE" ELSE status[j]]

\* lines 117-126: the output directory is made, whatever the rank
ZMakedirs(w) ==
    /\ task = "export" /\ pc[w] = "z_start"
    /\ writes' = [writes EXCEPT ![w] = @ \o MakedirsOps]
    /\ dir_exists' = TRUE
    /\ pc' = [pc EXCEPT ![w] = IF zero_stage = 3 THEN "z_loop" ELSE "z_repl"]
    /\ UNCHANGED <<task, dtype_arg, dtype_ret, batch, batch0, output, device, td_i, td_pc>>
    /\ UNCHANGED <<fn, zero_stage, model, idx, ds_status, fetched, gatherCalls, err,
                   output_state_dict, weight_map, total_size, saved_weights, saved_index>>

\* lines 129-135: not zero_stage_3; rank 0 saves state_dict() as it is and
\* builds the index
ZReplicated(w) ==
    /\ task = "export" /\ pc[w] = "z_repl"
    /\ IF w = 0
       THEN LET acc == IndexLoop(w, 1, Acc0)
            IN  /\ saved_weights' = [saved_weights EXCEPT
                                       ![w] = [written |-> TRUE, keys |-> FullStateDict(model)]]
                /\ writes' = [writes EXCEPT ![w] = @ \o <<"weights">>]
                /\ weight_map' = [weight_map EXCEPT ![w] = acc.weight_map]
                /\ total_size' = [total_size EXCEPT ![w] = acc.total_size]
                /\ pc' = [pc EXCEPT ![w] = IF acc.raised THEN "raised" ELSE "z_tail"]
                /\ err' = [err EXCEPT ![w] = IF acc.raised THEN "ValueError" ELSE @]
       ELSE /\ pc' = [pc EXCEPT ![w] = "z_tail"]
            /\ UNCHANGED <<saved_weights, writes, weight_map, total_size, err>>
    /\ UNCHANGED <<task, dtype_arg, dtype_ret, batch, batch0, output, device, td_i, td_pc>>
    /\ UNCHANGED <<fn, zero_stage, model, dir_exists, idx, ds_status, fetched, gatherCalls,
                   output_state_dict, saved_index>>

\* lines 140-143: the parameter has a ds_id; GatheredParameters is invoked on
\* _z3_params_to_fetch([v]).  With nothing to fetch the context does nothing;
\* otherwise the worker joins the collective gather.
Z3Enter(w) ==
    /\ task = "export" /\ pc[w] = "z_loop" /\ idx[w] <= Len(model)
    /\ ds_status[w][idx[w]] # "NONE"
    /\ gatherCalls' = [gatherCalls EXCEPT ![w][idx[w]] = @ + 1]
    /\ pc' = [pc EXCEPT ![w] = IF z3_params_to_fetch(w, idx[w]) = {} THEN "z_copy" ELSE "z_wait"]
    /\ UNCHANGED <<task, dtype_arg, dtype_ret, batch, batch0, output, device, td_i, td_pc>>
    /\ UNCHANGED <<fn, zero_stage, model, dir_exists, idx, ds_status, fetched, err,
                   output_state_dict, weight_map, total_size, writes, saved_weights,
                   saved_index>>

\* The gather is collective: it completes once every worker has joined it,
\* and leaves the full tensor on every worker.
AllGather ==
    /\ task = "export"
    /\ \A w \in Ranks : pc[w] = "z_wait" /\ idx[w] = idx[0]
    /\ ds_status' = [w \in Ranks |-> [ds_status[w] EXCEPT ![idx[w]] = "AVAILABLE"]]
    /\ fetched' = [w \in Ranks |-> {idx[w]}]
    /\ pc' = [w \in Ranks |-> "z_copy"]
    /\ UNCHANGED <<task, dtype_arg, dtype_ret, batch, batch0, output, device, td_i, td_pc>>
    /\ UNCHANGED <<fn, zero_stage, model, dir_exists, idx, gatherCalls, err,
                   output_state_dict, weight_map, total_size, writes, saved_weights,
                   saved_index>>

\* line 144 and the end of the `with` block: v.data.cpu() succeeds or raises,
\* and the context is left either way
Z3CopyExit(w) ==
    /\ task = "export" /\ pc[w] = "z_copy"
    /\ \E ok \in BOOLEAN :
         /\ ds_status' = [ds_status EXCEPT ![w] = ExitStatus(@, fetched[w], ok)]
         /\ pc' = [pc EXCEPT ![w] = IF ok THEN "z_account" ELSE "raised"]
         /\ err' = [err EXCEPT ![w] = IF ok THEN @ ELSE "CopyError"]
    /\ fetched' = [fetched EXCEPT ![w] = {}]
    /\ UNCHANGED <<task, dtype_arg, dtype_ret, batch, batch0, output, device, td_i, td_pc>>
    /\ UNCHANGED <<fn, zero_stage, model, dir_exists, idx, gatherCalls,
                   output_state_dict, weight_map, total_size, writes, saved_weights,
                   saved_index>>

\* lines 145-146: the parameter has no ds_id; v.cpu() succeeds or raises
Z3CopyLocal(w) ==
    /\ task = "export" /\ pc[w] = "z_loop" /\ idx[w] <= Len(model)
    /\ ds_status[w][idx[w]] = "NONE"
    /\ \E ok \in BOOLEAN :
         /\ pc' = [pc EXCEPT ![w] = IF ok THEN "z_account" ELSE "raised"]
         /\ err' = [err EXCEPT ![w] = IF ok THEN @ ELSE "CopyError"]
    /\ UNCHANGED <<task, dtype_arg, dtype_ret, batch, batch0, output, device, td_i, td_pc>>
    /\ UNCHANGED <<fn, zero_stage, model, dir_exists, idx, ds_status, fetched, gatherCalls,
                   output_state_dict, weight_map, total_size, writes, saved_weights,
                   saved_index>>

\* lines 147-150: rank 0 keeps the copy and accounts for the parameter
Z3Account(w) ==
    /\ task = "export" /\ pc[w] = "z_account"
    /\ LET j == idx[w]
           k == model[j].name
           acc == IndexEntry([weight_map |-> weight_map[w], total_size |-> total_size[w],
                              raised |-> FALSE],
                             k, Numel(w, j), model[j].dtype)
       IN  IF w = 0 /\ IsRetained(k)
           THEN /\ output_state_dict' = [output_state_dict EXCEPT ![w] = Append(@, k)]
                /\ weight_map' = [weight_map EXCEPT ![w] = acc.weight_map]
                /\ total_size' = [total_size EXCEPT ![w] = acc.total_size]
                /\ pc' = [pc EXCEPT ![w] = IF acc.raised THEN "raised" ELSE "z_loop"]
                /\ err' = [err EXCEPT ![w] = IF acc.raised THEN "ValueError" ELSE @]
                /\ idx' = [idx EXCEPT ![w] = IF acc.raised THEN @ ELSE @ + 1]
           ELSE /\ pc' = [pc EXCEPT ![w] = "z_loop"]
                /\ idx' = [idx EXCEPT ![w] = @ + 1]
                /\ UNCHANGED <<output_state_dict, weight_map, total_size, err>>
    /\ UNCHANGED <<task, dtype_arg, dtype_ret, batch, batch0, output, device, td_i, td_pc>>
    /\ UNCHANGED <<fn, zero_stage, model, dir_exists, ds_status, fetched, gatherCalls,
                   writes, saved_weights, saved_index>>

\* lines 151-153: after the loop rank 0 saves output_state_dict, which is
\* then deleted
Z3Save(w) ==
    /\ task = "export" /\ pc[w] = "z_loop" /\ idx[w] > Len(model)
    /\ IF w = 0
       THEN /\ saved_weights' = [saved_weights EXCEPT
                                   ![w] = [written |-> TRUE, keys |-> output_state_dict[w]]]
            /\ writes' = [writes EXCEPT ![w] = @ \o <<"weights">>]
       ELSE UNCHANGED <<saved_weights, writes>>
    /\ output_state_dict' = [output_state_dict EXCEPT ![w] = <<>>]
    /\ pc' = [pc EXCEPT ![w] = "z_tail"]
    /\ UNCHANGED <<task, dtype_arg, dtype_ret, batch, batch0, output, device, td_i, td_pc>>
    /\ UNCHANGED <<fn, zero_stage, model, dir_exists, idx, ds_status, fetched, gatherCalls,
                   err, weight_map, total_size, saved_index>>

\* lines 155-162: rank 0 writes the index and the tokenizer and runs the copies
ZTail(w) ==
    /\ task = "export" /\ pc[w] = "z_tail"
    /\ IF w = 0
       THEN /\ saved_index' = [saved_index EXCEPT
                                 ![w] = [written |-> TRUE, weight_map |-> weight_map[w],
                                         total_size |-> total_size[w]]]
            /\ writes' = [writes EXCEPT
                            ![w] = @ \o <<"index", "tokenizer", "cp_telechat", "cp_generation">>]
       ELSE UNCHANGED <<saved_index, writes>>
    /\ pc' = [pc EXCEPT ![w] = "done"]
    /\ UNCHANGED <<task, dtype_arg, dtype_ret, batch, batch0, output, device, td_i, td_pc>>
    /\ UNCHANGED <<fn, zero_stage, model, dir_exists, idx, ds_status, fetched, gatherCalls,
                   err, output_state_dict, weight_map, total_size, saved_weights>>

----------------------------------------------------------------------------
(* get_dtype_size, called on its own *)

GetDtypeSize ==
    /\ task = "get_dtype_size" /\ dtype_ret.pc = "call"
    /\ LET r == get_dtype_size(dtype_arg)
       IN  dtype_ret' = [pc |-> IF r.raised THEN "raised" ELSE "returned",
                         eighths |-> r.eighths]
    /\ UNCHANGED <<task, dtype_arg>>
    /\ UNCHANGED exportVars
    /\ UNCHANGED deviceVars

----------------------------------------------------------------------------
(* to_device *)

Keys == {"input_ids", "labels", "meta"}
Devices == {"cpu", "cuda"}

\* A value of the batch: `to` says what v.to(device) does: "ok" (a tensor
\* that moves), "raises" (a tensor whose move fails), "absent" (no such
\* attribute).
Values ==
    { [id |-> "t1", to |-> "ok", device |-> "cpu"],
      [id |-> "t2", to |-> "ok", device |-> "cuda"],
      [id |-> "t3", to |-> "raises", device |-> "cpu"],
      [id |-> "s", to |-> "absent", device |-> "host"] }

Batches ==
    { b \in UNION { [1..n -> [key : Keys, val : Values]] : n \in 0..MaxBatch } :
        \A i, j \in 1..Len(b) : i # j => b[i].key # b[j].key }

\* v.to(device)
Attempt(v, d) ==
    IF v.to = "ok" THEN [raised |-> FALSE, val |-> [v EXCEPT !.device = d]]
    ELSE [raised |-> TRUE, val |-> v]

\* lines 23-26 without the except clause
TryTo_noExcept(v, d) == Attempt(v, d)

\* lines 23-26: try: v.to(device)  except: v
TryTo(v, d) ==
    LET a == Attempt(v, d)
    IN  IF a.raised THEN [raised |-> FALSE, val |-> v] ELSE a

\* d[k] = v on a dict kept in insertion order
DictSet(d, k, v) ==
    IF \E i \in 1..Len(d) : d[i].key = k
    THEN [i \in 1..Len(d) |-> IF d[i].key = k THEN [key |-> k, val |-> v] ELSE d[i]]
    ELSE Append(d, [key |-> k, val |-> v])

\* one iteration of `for k, v in batch.items()`
TdIter ==
    /\ task = "to_device" /\ td_pc = "loop" /\ td_i <= Len(batch)
    /\ LET r == TryTo(batch[td_i].val, device)
       IN  IF r.raised
           THEN /\ td_pc' = "raised"
                /\ UNCHANGED <<output, td_i>>
           ELSE /\ output' = DictSet(output, batch[td_i].key, r.val)
                /\ td_i' = td_i + 1
                /\ UNCHANGED td_pc
    /\ UNCHANGED <<task, batch, batch0, device>>
    /\ UNCHANGED exportVars
    /\ UNCHANGED dtypeVars

\* return output
TdReturn ==
    /\ task = "to_device" /\ td_pc = "loop" /\ td_i > Len(batch)
    /\ td_pc' = "returned"
    /\ UNCHANGED <<task, batch, batch0, output, device, td_i>>
    /\ UNCHANGED exportVars
    /\ UNCHANGED dtypeVars

----------------------------------------------------------------------------
(* The specification *)

IdleExport ==
    /\ fn = "none" /\ zero_stage = 0 /\ model = <<>> /\ dir_exists = FALSE
    /\ pc = [w \in Ranks |-> "idle"]
    /\ idx = [w \in Ranks |-> 1]
    /\ ds_status = [w \in Ranks |-> <<>>]
    /\ fetched = [w \in Ranks |-> {}]
    /\ gatherCalls = [w \in Ranks |-> <<>>]
    /\ err = [w \in Ranks |-> "none"]
    /\ output_state_dict = [w \in Ranks |-> <<>>]
    /\ weight_map = [w \in Ranks |-> {}]
    /\ total_size = [w \in Ranks |-> 0]
    /\ writes = [w \in Ranks |-> <<>>]
    /\ saved_weights = [w \in Ranks |-> NotWritten]
    /\ saved_index = [w \in Ranks |-> NoIndex]

IdleDtype == dtype_arg = <<>> /\ dtype_ret = [pc |-> "idle", eighths |-> 0]

IdleDevice ==
    /\ batch = <<>> /\ batch0 = <<>> /\ output = <<>> /\ device = "cpu"
    /\ td_i = 1 /\ td_pc = "idle"

\* Every worker calls the same export function on the same model (SPMD).  A
\* model exported in replicated mode holds full parameters: none has a ds_id.
InitExport ==
    /\ task = "export"
    /\ \E f \in {"save_hf_format", "save_zero_three_model"} :
         /\ fn = f
         /\ zero_stage \in (IF f = "save_hf_format" THEN {2} ELSE {2, 3})
    /\ \E m \in ParamLists : model = IF Partitioned THEN m ELSE Replicated(m)
    /\ dir_exists \in BOOLEAN
    /\ pc = [w \in Ranks |-> IF fn = "save_hf_format" THEN "hf_start" ELSE "z_start"]
    /\ idx = [w \in Ranks |-> 1]
    /\ ds_status = [w \in Ranks |-> [j \in 1..Len(model) |-> model[j].ds_status]]
    /\ fetched = [w \in Ranks |-> {}]
    /\ gatherCalls = [w \in Ranks |-> [j \in 1..Len(model) |-> 0]]
    /\ err = [w \in Ranks |-> "none"]
    /\ output_state_dict = [w \in Ranks |-> <<>>]
    /\ weight_map = [w \in Ranks |-> {}]
    /\ total_size = [w \in Ranks |-> 0]
    /\ writes = [w \in Ranks |-> <<>>]
    /\ saved_weights = [w \in Ranks |-> NotWritten]
    /\ saved_index = [w \in Ranks |-> NoIndex]
    /\ IdleDtype /\ IdleDevice

InitDtype ==
    /\ task = "get_dtype_size"
    /\ dtype_arg \in DTypePool
    /\ dtype_ret = [pc |-> "call", eighths |-> 0]
    /\ IdleExport /\ IdleDevice

InitDevice ==
    /\ task = "to_device"
    /\ batch \in Batches
    /\ batch0 = batch
    /\ output = <<>>
    /\ device \in Devices
    /\ td_i = 1
    /\ td_pc = "loop"
    /\ IdleExport /\ IdleDtype

Init == InitExport \/ InitDtype \/ InitDevice

Next ==
    \/ \E w \in Ranks : HfMakedirs(w)
    \/ \E w \in Ranks : HfSaveState(w)
    \/ \E w \in Ranks : HfBuildIndex(w)
    \/ \E w \in Ranks : HfWriteIndex(w)
    \/ \E w \in Ranks : ZMakedirs(w)
    \/ \E w \in Ranks : ZReplicated(w)
    \/ \E w \in Ranks : Z3Enter(w)
    \/ AllGather
    \/ \E w \in Ranks : Z3CopyExit(w)
    \/ \E w \in Ranks : Z3CopyLocal(w)
    \/ \E w \in Ranks : Z3Account(w)
    \/ \E w \in Ranks : Z3Save(w)
    \/ \E w \in Ranks : ZTail(w)
    \/ GetDtypeSize
    \/ TdIter
    \/ TdReturn

Spec == Init /\ [][Next]_vars

----------------------------------------------------------------------------
(* Properties *)

Range(f) == { f[i] : i \in DOMAIN f }

HasLora(name) == Contains(S_lora, name)

\* The parameters with a partition identifier (ds_id)
Sharded == { j \in 1..Len(model) : model[j].ds_status # "NONE" }

\* A worker that will take no further step: its call returned or raised, or
\* it waits in a collective gather that a worker that raised will never join.
Stopped(w) ==
    \/ pc[w] \in {"done", "raised"}
    \/ pc[w] = "z_wait" /\ \E v \in Ranks : pc[v] = "raised"

\* C1: in a partitioned-mode export in which no host copy failed, once every
\* worker has stopped, every worker has invoked the gather exactly once for
\* every parameter that has a ds_id, so the counts agree across workers.
C1_GatherParity ==
    ( /\ task = "export" /\ Partitioned
      /\ \A w \in Ranks : Stopped(w) /\ err[w] # "CopyError" )
    => \A w \in Ranks : \A j \in Sharded : gatherCalls[w][j] = 1

\* C2: in replicated mode (save_hf_format, or save_zero_three_model with
\* zero_stage # 3) a worker whose global_rank is not 0 performs no filesystem
\* operation: no directory, no file, no copy.
C2_OnlyRankZeroWrites ==
    (task = "export" /\ ~Partitioned)
    => \A w \in Ranks \ {0} : writes[w] = <<>>

\* The workers whose completed call writes an index: every caller of
\* save_hf_format, rank 0 of save_zero_three_model.
WritesIndex(w) == fn = "save_hf_format" \/ w = 0

\* C3: when an export call has completed, the index it wrote maps every
\* parameter name without "lora" to the single weights file, and has no key
\* that contains "lora" (nor any other key).
C3_WeightMap ==
    \A w \in Ranks :
        (task = "export" /\ pc[w] = "done" /\ WritesIndex(w))
        => /\ saved_index[w].written
           /\ saved_index[w].weight_map =
                { <<model[j].name, WEIGHTS_NAME>> :
                    j \in { i \in 1..Len(model) : ~HasLora(model[i].name) } }

\* C3 witness: a partitioned-mode export completed on rank 0 for a model with
\* a name that has "lora" inside it and a name that has not.
C3_Witness ==
    /\ task = "export" /\ Partitioned /\ pc[0] = "done"
    /\ \E i, j \in 1..Len(model) :
         /\ HasLora(model[i].name) /\ ~StartsWith(S_lora, model[i].name)
         /\ ~HasLora(model[j].name)

\* C4: whatever the export path, no key of the saved parameter state contains
\* "lora".
C4_NoLoraSaved ==
    \A w \in Ranks :
        (task = "export" /\ saved_weights[w].written)
        => \A i \in 1..Len(saved_weights[w].keys) : ~HasLora(saved_weights[w].keys[i])

\* Sum over the retained parameters from position j of
\* (element count of the full parameter) * (width of its dtype), in eighths
RECURSIVE FullSize(_)
FullSize(j) ==
    IF j > Len(model) THEN 0
    ELSE (IF HasLora(model[j].name) THEN 0
          ELSE model[j].numel * get_dtype_size(model[j].dtype).eighths)
         + FullSize(j + 1)

\* C5: the total_size of a written index is the sum, over the parameters
\* without "lora" in their name, of the element count of the full parameter
\* times the width of its dtype, in replicated and in partitioned mode.
C5_TotalSize ==
    \A w \in Ranks :
        (task = "export" /\ saved_index[w].written)
        => saved_index[w].total_size = FullSize(1)

\* The digits that end s
RECURSIVE TrailingDigits(_)
TrailingDigits(s) ==
    IF s = <<>> \/ s[Len(s)] \notin Digits THEN <<>>
    ELSE Append(TrailingDigits(SubSeq(s, 1, Len(s) - 1)), s[Len(s)])

\* C6: get_dtype_size returns 1/8 for the boolean kind, N/8 for a string form
\* that ends in the digits N (a multiple of 8 or not), and raises for any
\* other input.
C6_DtypeSize ==
    (task = "get_dtype_size" /\ dtype_ret.pc # "call")
    => IF dtype_arg = T_bool
       THEN dtype_ret = [pc |-> "returned", eighths |-> 1]
       ELSE IF TrailingDigits(dtype_arg) # <<>>
       THEN dtype_ret = [pc |-> "returned", eighths |-> ParseInt(TrailingDigits(dtype_arg))]
       ELSE dtype_ret.pc = "raised"

\* What a replicated-mode export (save_hf_format) leaves in the directory
ReplicatedArtifacts ==
    {"weights", "config", "tokenizer", "index", "cp_telechat", "cp_generation"}

\* C7: a partitioned-mode export completed on rank 0 has written the artifacts
\* of a replicated-mode export, all of them by rank 0.
C7_SameArtifacts ==
    (task = "export" /\ Partitioned /\ pc[0] = "done")
    => /\ Range(writes[0]) \ {"mkdir"} = ReplicatedArtifacts
       /\ \A w \in Ranks \ {0} : Range(writes[w]) \subseteq {"mkdir"}

\* A retained parameter whose dtype is not the boolean kind and has no
\* trailing digits
HasUnrecognizedDtype ==
    \E j \in 1..Len(model) :
        /\ ~HasLora(model[j].name)
        /\ model[j].dtype # T_bool
        /\ TrailingDigits(model[j].dtype) = <<>>

\* C8: with an unrecognized dtype on a retained parameter, no worker's export
\* call completes normally and no index is written.
C8_BadDtypeFailsAll ==
    (task = "export" /\ HasUnrecognizedDtype)
    => \A w \in Ranks : pc[w] # "done" /\ ~saved_index[w].written

\* The parameters of worker w that were partitioned at the call and are
\* gathered now
Gathered(w) ==
    { j \in 1..Len(model) :
        model[j].ds_status = "NOT_AVAILABLE" /\ ds_status[w][j] = "AVAILABLE" }

\* C9: on every worker a parameter is gathered only while the worker is
\* inside the `with` block of that parameter: at most one at a time, none
\* when the next gather is invoked, none once the call has returned or raised.
C9_ScopedGather ==
    \A w \in Ranks :
        task = "export" =>
            Gathered(w) \subseteq (IF pc[w] = "z_copy" THEN {idx[w]} ELSE {})

\* C9 witness: the host copy of a gathered parameter failed on a worker, and
\* the call raised.
C9_Witness ==
    \E w \in Ranks :
        /\ task = "export" /\ Partitioned
        /\ pc[w] = "raised" /\ err[w] = "CopyError"
        /\ model[idx[w]].ds_status = "NOT_AVAILABLE"
        /\ gatherCalls[w][idx[w]] = 1

\* C10: to_device never raises and leaves its input alone; what it returns
\* has the keys of the input in the same order, each movable value moved to
\* the device and every other value as it was.
C10_ToDevice ==
    task = "to_device" =>
        /\ td_pc # "raised"
        /\ batch = batch0
        /\ td_pc = "returned" =>
             /\ Len(output) = Len(batch0)
             /\ \A i \in 1..Len(batch0) :
                  /\ output[i].key = batch0[i].key
                  /\ output[i].val =
                       IF batch0[i].val.to = "ok"
                       THEN [batch0[i].val EXCEPT !.device = device]
                       ELSE batch0[i].val

\* C10 witness: a mapping with a movable and a non-movable entry was returned.
C10_Witness ==
    /\ task = "to_device" /\ td_pc = "returned"
    /\ \E i, j \in 1..Len(batch0) :
         /\ batch0[i].val.to = "ok" /\ batch0[i].val.device # device
         /\ batch0[j].val.to # "ok"

====
